---------------------------- MODULE Spec2Model ----------------------------
(***************************************************************************)
(* Model of the prospect-research workflow:                                *)
(*   src/utility.py  parse_position_titles, extract_profiles,              *)
(*                   deduplicate_by_url, improved_search                   *)
(*   src/main.py     main                                                  *)
(*   src/api.py      search_prospects, process_prospect_search             *)
(*                                                                         *)
(* Text that the code slices or parses (agent outputs) is a sequence of    *)
(* one-character strings.  Field values that the code only compares        *)
(* (urls, titles of profiles) are atomic strings.  A dynamically typed     *)
(* Python value is a record with one field, named by its type.             *)
(***************************************************************************)
EXTENDS Integers, Sequences, FiniteSets, TLC

(***************************************************************************)
(* Bounds of the model.                                                    *)
(***************************************************************************)
\* largest desired_profile / max_profiles a request asks for
MaxDesired == 2
\* largest raw candidate pool (all_profiles) the search responses build up
MaxPool == 3
\* largest max_retries of a direct improved_search invocation
MaxRetriesArg == 2
\* longest sequence given to deduplicate_by_url on its own
MaxSeq == 3

(***************************************************************************)
(* Python values.                                                          *)
(***************************************************************************)
\* None as a field value (the result of dict.get on a missing key)
PyNone == "<None>"
\* Python truthiness of a field value: '' and None are falsy
Truthy(v) == v \notin {"", PyNone}
\* dict.get(key, default)
Get(d, key, default) == IF key \in DOMAIN d THEN d[key] ELSE default

\* A dynamically typed value is a record with one field, named by its type.
NoneValue == [none |-> TRUE]
Str(chars) == [str |-> chars]
List(items) == [list |-> items]
Dict(map) == [dict |-> map]
IntValue(n) == [int |-> n]
TypeOf(value) == CHOOSE type \in DOMAIN value : TRUE
Val(value) == value[TypeOf(value)]

\* An element of a JSON array: a mapping is a record of its keys, a number
\* is the record [scalar |-> ...], a PositionTitle instance carries class.
IsMapping(e) == "scalar" \notin DOMAIN e /\ "class" \notin DOMAIN e
IsPositionTitle(e) == "class" \in DOMAIN e /\ e.class = "PositionTitle"

Min(a, b) == IF a <= b THEN a ELSE b
Max(a, b) == IF a >= b THEN a ELSE b

(***************************************************************************)
(* Python str operations on character sequences.                           *)
(***************************************************************************)
Whitespace == {" ", "\n", "\t", "\r"}

\* s[a:] for a >= 0
DropFirst(s, a) == SubSeq(s, Min(a, Len(s)) + 1, Len(s))
\* s[a:-b] for a, b >= 0, b > 0
SliceInner(s, a, b) == SubSeq(s, a + 1, Len(s) - b)
\* seq[:n] for any integer n (a negative n counts from the end)
SlicePrefix(s, n) ==
    IF n >= 0 THEN SubSeq(s, 1, Min(n, Len(s)))
    ELSE SubSeq(s, 1, Max(Len(s) + n, 0))

StartsWith(s, p) == Len(s) >= Len(p) /\ SubSeq(s, 1, Len(p)) = p
EndsWith(s, p) == Len(s) >= Len(p) /\ SubSeq(s, Len(s) - Len(p) + 1, Len(s)) = p

RECURSIVE LStrip(_)
LStrip(s) == IF s # <<>> /\ Head(s) \in Whitespace THEN LStrip(Tail(s)) ELSE s
RECURSIVE RStrip(_)
RStrip(s) ==
    IF s # <<>> /\ s[Len(s)] \in Whitespace THEN RStrip(SubSeq(s, 1, Len(s) - 1)) ELSE s
\* str.strip()
Strip(s) == RStrip(LStrip(s))

\* The backquote character (a TLA+ string cannot hold it).
Backquote == "BACKQUOTE"
\* the markdown fence, and the fence tagged json
Fence == <<Backquote, Backquote, Backquote>>
FenceJson == <<Backquote, Backquote, Backquote, "j", "s", "o", "n">>
NL == <<"\n">>

(***************************************************************************)
(* JSON texts the agents answer with.                                      *)
(***************************************************************************)
JB_u1t ==
    <<"[", "{", "\"", "u", "r", "l", "\"", ":", "\"", "u", "1", "\"", ",", "\"", "t", "i", "t",
      "l", "e", "\"", ":", "\"", "t", "\"", "}", "]">>
JB_u2 ==
    <<"[", "{", "\"", "u", "r", "l", "\"", ":", "\"", "u", "2", "\"", "}", "]">>
JB_u1g_u2 ==
    <<"[", "{", "\"", "u", "r", "l", "\"", ":", "\"", "u", "1", "\"", ",", "\"", "t", "i", "t",
      "l", "e", "\"", ":", "\"", "g", "\"", "}", ",", "{", "\"", "u", "r", "l", "\"", ":",
      "\"", "u", "2", "\"", "}", "]">>
JB_dups ==
    <<"[", "{", "\"", "u", "r", "l", "\"", ":", "\"", "u", "3", "\"", "}", ",", "{", "\"", "u",
      "r", "l", "\"", ":", "\"", "u", "3", "\"", ",", "\"", "t", "i", "t", "l", "e", "\"", ":",
      "\"", "g", "\"", "}", ",", "{", "\"", "u", "r", "l", "\"", ":", "\"", "\"", "}", ",",
      "{", "\"", "t", "i", "t", "l", "e", "\"", ":", "\"", "t", "\"", "}", "]">>
JB_many ==
    <<"[", "{", "\"", "u", "r", "l", "\"", ":", "\"", "u", "1", "\"", "}", ",", "{", "\"", "u",
      "r", "l", "\"", ":", "\"", "u", "2", "\"", "}", ",", "{", "\"", "u", "r", "l", "\"", ":",
      "\"", "u", "3", "\"", "}", "]">>
JB_empty ==
    <<"[", "]">>
JB_dict_u1 ==
    <<"{", "\"", "u", "r", "l", "\"", ":", "\"", "u", "1", "\"", "}">>
JB_mixed ==
    <<"[", "{", "\"", "u", "r", "l", "\"", ":", "\"", "u", "4", "\"", "}", ",", "5", "]">>
JB_u4 ==
    <<"[", "{", "\"", "u", "r", "l", "\"", ":", "\"", "u", "4", "\"", "}", "]">>
JB_res_u1a ==
    <<"{", "\"", "r", "e", "s", "u", "l", "t", "s", "\"", ":", "[", "{", "\"", "u", "r", "l",
      "\"", ":", "\"", "u", "1", "\"", ",", "\"", "t", "i", "t", "l", "e", "\"", ":", "\"",
      "a", "\"", "}", "]", "}">>
JB_res_u1b_u2 ==
    <<"{", "\"", "r", "e", "s", "u", "l", "t", "s", "\"", ":", "[", "{", "\"", "u", "r", "l",
      "\"", ":", "\"", "u", "1", "\"", ",", "\"", "t", "i", "t", "l", "e", "\"", ":", "\"",
      "b", "\"", "}", ",", "{", "\"", "u", "r", "l", "\"", ":", "\"", "u", "2", "\"", "}", "]",
      "}">>
JB_res_u3 ==
    <<"{", "\"", "r", "e", "s", "u", "l", "t", "s", "\"", ":", "[", "{", "\"", "u", "r", "l",
      "\"", ":", "\"", "u", "3", "\"", "}", "]", "}">>
JB_res_5 ==
    <<"{", "\"", "r", "e", "s", "u", "l", "t", "s", "\"", ":", "5", "}">>
JB_prof_u3 ==
    <<"{", "\"", "p", "r", "o", "f", "i", "l", "e", "s", "\"", ":", "[", "{", "\"", "u", "r",
      "l", "\"", ":", "\"", "u", "3", "\"", "}", "]", "}">>
JB_titles2 ==
    <<"[", "\"", "C", "T", "O", "\"", ",", "\"", "V", "P", "\"", "]">>
JB_titles1 ==
    <<"[", "\"", "C", "T", "O", "\"", "]">>
TXT_oops ==
    <<"o", "o", "p", "s">>
TXT_badjson ==
    <<"[", "o", "o", "p", "s", "]">>
TXT_titles_prefix ==
    <<"T", "i", "t", "l", "e", "s", ":", " ">>
TXT_lines ==
    <<"#", " ", "R", "o", "l", "e", "s", "\n", "1", ".", " ", "C", "T", "O", " ", "\n", "-",
      " ", "V", "P", " ", "E", "n", "g", "\n", "C", "I", "O">>
TXT_short ==
    <<"n", "/", "a">>
TXT_CTO ==
    <<"C", "T", "O">>
TXT_VP_Eng ==
    <<"V", "P", " ", "E", "n", "g">>

(***************************************************************************)
(* json.loads: the value of each JSON text above (surrounding whitespace   *)
(* is ignored); every other text is a JSONDecodeError.                     *)
(***************************************************************************)
Parsed(value) == [ok |-> TRUE, v |-> value]
Raised == [ok |-> FALSE, v |-> NoneValue]

JsonLoads(s) ==
    LET b == Strip(s) IN
    CASE b = JB_u1t -> Parsed(List(<<[url |-> "u1", title |-> "t"]>>))
      [] b = JB_u2 -> Parsed(List(<<[url |-> "u2"]>>))
      [] b = JB_u1g_u2 -> Parsed(List(<<[url |-> "u1", title |-> "g"], [url |-> "u2"]>>))
      [] b = JB_dups ->
            Parsed(List(<<[url |-> "u3"], [url |-> "u3", title |-> "g"],
                          [url |-> ""], [title |-> "t"]>>))
      [] b = JB_many -> Parsed(List(<<[url |-> "u1"], [url |-> "u2"], [url |-> "u3"]>>))
      [] b = JB_empty -> Parsed(List(<<>>))
      [] b = JB_dict_u1 -> Parsed(Dict([url |-> "u1"]))
      [] b = JB_mixed -> Parsed(List(<<[url |-> "u4"], [scalar |-> "5"]>>))
      [] b = JB_u4 -> Parsed(List(<<[url |-> "u4"]>>))
      [] b = JB_res_u1a -> Parsed(Dict([results |-> List(<<[url |-> "u1", title |-> "a"]>>)]))
      [] b = JB_res_u1b_u2 ->
            Parsed(Dict([results |-> List(<<[url |-> "u1", title |-> "b"], [url |-> "u2"]>>)]))
      [] b = JB_res_u3 -> Parsed(Dict([results |-> List(<<[url |-> "u3"]>>)]))
      [] b = JB_res_5 -> Parsed(Dict([results |-> IntValue(5)]))
      [] b = JB_prof_u3 -> Parsed(Dict([profiles |-> List(<<[url |-> "u3"]>>)]))
      [] b = JB_titles2 -> Parsed(List(<<"CTO", "VP">>))
      [] b = JB_titles1 -> Parsed(List(<<"CTO">>))
      [] OTHER -> Raised

(***************************************************************************)
(* utility.py: extract_profiles                                            *)
(***************************************************************************)
\* "not result": None, '', an empty list or dict, 0
Falsy(result) ==
    \/ TypeOf(result) = "none"
    \/ TypeOf(result) \in {"str", "list"} /\ Val(result) = <<>>
    \/ TypeOf(result) = "dict" /\ DOMAIN Val(result) = {}
    \/ TypeOf(result) = "int" /\ Val(result) = 0

\* lines 86-90: the markdown fence is removed from the text as it stands
StripFenceRaw(text) ==
    IF StartsWith(text, FenceJson) /\ EndsWith(text, Fence) THEN Strip(SliceInner(text, 7, 3))
    ELSE IF StartsWith(text, Fence) /\ EndsWith(text, Fence) THEN Strip(SliceInner(text, 3, 3))
    ELSE text

\* lines 118-132: one base record per mapping or PositionTitle element
BaseRecord(res) ==
    IF IsMapping(res)
    THEN <<[title |-> Get(res, "title", ""), url |-> Get(res, "url", ""),
            content |-> Get(res, "content", ""), score |-> Get(res, "score", 0)]>>
    ELSE IF IsPositionTitle(res)
    THEN <<[title |-> res.position_title, url |-> res.linkedin_profile,
            content |-> "", score |-> 0]>>
    ELSE <<>>

RECURSIVE BaseRecords(_)
BaseRecords(items) ==
    IF items = <<>> THEN <<>> ELSE BaseRecord(Head(items)) \o BaseRecords(Tail(items))

\* lines 99-134, on a structured value
ExtractStructured(result) ==
    IF TypeOf(result) # "dict" THEN Parsed(<<>>)
    ELSE LET profile_data ==
                 IF "results" \in DOMAIN Val(result) THEN Val(result).results
                 ELSE IF "profiles" \in DOMAIN Val(result) THEN Val(result).profiles
                 ELSE NoneValue
         IN IF Falsy(profile_data) THEN Parsed(<<>>)
            ELSE IF TypeOf(profile_data) = "list" THEN Parsed(BaseRecords(Val(profile_data)))
            ELSE Raised   \* iterating a number: TypeError

\* ok: the list returned; not ok: an exception leaves extract_profiles
extract_profiles(result) ==
    IF Falsy(result) THEN Parsed(<<>>)
    ELSE IF TypeOf(result) = "str"
    THEN LET loaded == JsonLoads(StripFenceRaw(Val(result)))
         IN IF loaded.ok THEN ExtractStructured(loaded.v) ELSE Parsed(<<>>)
    ELSE ExtractStructured(result)

(***************************************************************************)
(* utility.py: deduplicate_by_url                                          *)
(***************************************************************************)
\* variant of DedupFrom: a repeated url is forgotten again
RECURSIVE DedupFrom_ForgetsOnRepeat(_, _, _)
DedupFrom_ForgetsOnRepeat(profiles, seen, unique) ==
    IF profiles = <<>> THEN unique
    ELSE LET p == Head(profiles)
             url == Get(p, "url", PyNone)
         IN IF Truthy(url) /\ url \notin seen
            THEN DedupFrom_ForgetsOnRepeat(Tail(profiles), seen \cup {url}, Append(unique, p))
            ELSE DedupFrom_ForgetsOnRepeat(Tail(profiles), seen \ {url}, unique)

\* variant of DedupFrom: a later record replaces the one kept for its url
RECURSIVE DedupFrom_KeepsLast(_, _, _)
DedupFrom_KeepsLast(profiles, seen, unique) ==
    IF profiles = <<>> THEN unique
    ELSE LET p == Head(profiles)
             url == Get(p, "url", PyNone)
         IN IF Truthy(url) /\ url \notin seen
            THEN DedupFrom_KeepsLast(Tail(profiles), seen \cup {url}, Append(unique, p))
            ELSE IF Truthy(url)
            THEN DedupFrom_KeepsLast(Tail(profiles), seen,
                     [i \in 1..Len(unique) |->
                         IF Get(unique[i], "url", PyNone) = url THEN p ELSE unique[i]])
            ELSE DedupFrom_KeepsLast(Tail(profiles), seen, unique)

RECURSIVE DedupFrom(_, _, _)
DedupFrom(profiles, seen, unique) ==
    IF profiles = <<>> THEN unique
    ELSE LET p == Head(profiles)
             url == Get(p, "url", PyNone)
         IN IF Truthy(url) /\ url \notin seen
            THEN DedupFrom(Tail(profiles), seen \cup {url}, Append(unique, p))
            ELSE DedupFrom(Tail(profiles), seen, unique)

deduplicate_by_url(profiles) == DedupFrom(profiles, {}, <<>>)

(***************************************************************************)
(* utility.py: parse_position_titles                                       *)
(***************************************************************************)
\* str(chars): the atomic string of a text that becomes a title
AsString(chars) ==
    CASE chars = TXT_CTO -> "CTO"
      [] chars = TXT_VP_Eng -> "VP Eng"
      [] chars = TXT_badjson -> "[oops]"
      [] OTHER -> "?"

RECURSIVE FirstIndexFrom(_, _, _)
FirstIndexFrom(s, c, i) ==
    IF i > Len(s) THEN 0 ELSE IF s[i] = c THEN i ELSE FirstIndexFrom(s, c, i + 1)
RECURSIVE LastIndexFrom(_, _, _)
LastIndexFrom(s, c, i) ==
    IF i < 1 THEN 0 ELSE IF s[i] = c THEN i ELSE LastIndexFrom(s, c, i - 1)

\* re.search(r'\[.*\]', s, re.DOTALL): from the first "[" to the last "]"
\* after it; <<>> when there is no match
BracketMatch(s) ==
    LET i == FirstIndexFrom(s, "[", 1)
        j == LastIndexFrom(s, "]", Len(s))
    IN IF i > 0 /\ j > i THEN SubSeq(s, i, j) ELSE <<>>

\* s.split('\n')
RECURSIVE SplitLines(_)
SplitLines(s) ==
    LET i == FirstIndexFrom(s, "\n", 1)
    IN IF i = 0 THEN <<s>> ELSE <<SubSeq(s, 1, i - 1)>> \o SplitLines(DropFirst(s, i))

Digits == {"0", "1", "2", "3", "4", "5", "6", "7", "8", "9"}
\* re.sub(r'^[\d\-\.\s]+', '', line)
RECURSIVE StripNumbering(_)
StripNumbering(line) ==
    IF line # <<>> /\ Head(line) \in Digits \cup {"-", "."} \cup Whitespace
    THEN StripNumbering(Tail(line)) ELSE line

\* lines 56-62: the titles of the lines of a text without a JSON array
RECURSIVE LineTitles(_)
LineTitles(lines) ==
    IF lines = <<>> THEN <<>>
    ELSE LET line == Strip(Head(lines))
             clean_line == StripNumbering(line)
         IN (IF line # <<>> /\ Head(line) # "#" /\ Len(line) > 3 /\ clean_line # <<>>
             THEN <<AsString(clean_line)>> ELSE <<>>) \o LineTitles(Tail(lines))

parse_position_titles(agent_output) ==
    IF TypeOf(agent_output) = "str"
    THEN LET json_match == BracketMatch(Val(agent_output))
         IN IF json_match # <<>>
            THEN LET loaded == JsonLoads(json_match)
                 IN IF loaded.ok THEN loaded.v
                    \* except: [agent_output] (the text is not empty here)
                    ELSE List(<<AsString(Val(agent_output))>>)
            ELSE List(LineTitles(SplitLines(Val(agent_output))))
    ELSE agent_output

(***************************************************************************)
(* State.                                                                  *)
(***************************************************************************)
VARIABLES
    \* api.py: the job-status map, the clock behind datetime.now(), the lines
    \* appended to the company file, the running background task's request id
    \* and position, the answer to the last read request, and the frames of
    \* the background tasks the event loop is not running
    job_status, now, company_file, request_id, task_pc, response, other_tasks,
    \* main.py: main's position and what it returned
    main_pc, main_result,
    \* utility.py improved_search: arguments
    company, position_titles, desired_profile, max_retries,
    \* improved_search: locals
    attempt, all_profiles, accumulated_profiles, accumulated_urls,
    query, agent_result, profiles_needed, filter_result, filtered_profiles,
    \* improved_search: position (pc, and idx, the position of the title the
    \* current for loop is at) and outcome
    pc, idx, result,
    \* a log of what improved_search asks of its agents: the number of search
    \* calls and of filter calls issued, and the urls of the candidate pools
    \* handed to the filter agent.  The log is kept where counting is TRUE.
    counting, search_calls, filter_calls, pool_urls

api_vars == <<job_status, now, company_file, request_id, task_pc, response, other_tasks>>
main_vars == <<main_pc, main_result>>
search_args == <<company, position_titles, desired_profile, max_retries, counting>>
call_log == <<search_calls, filter_calls, pool_urls>>
search_locals ==
    <<attempt, all_profiles, accumulated_profiles, accumulated_urls, query, agent_result,
      profiles_needed, filter_result, filtered_profiles, call_log>>
search_vars == <<search_args, search_locals, pc, idx, result>>
vars == <<api_vars, main_vars, search_vars>>

(***************************************************************************)
(* The agents' answers: Runner.run returns a final_output or raises.       *)
(***************************************************************************)
NoResult == [kind |-> "none"]
Returns(final_output) == [kind |-> "return", final_output |-> final_output]
Raises == [kind |-> "raise"]
\* no read request has been answered yet
NoResponse == [op |-> "none", code |-> 0]

\* answers of the search agent (loop_agent)
SearchResponses ==
    { Raises,
      Returns(NoneValue),
      Returns(Str(TXT_oops)),
      Returns(Str(JB_res_u1a)),
      Returns(Str(FenceJson \o NL \o JB_res_u1b_u2 \o NL \o Fence)),
      Returns(Str(Fence \o NL \o JB_prof_u3 \o NL \o Fence)),
      Returns(Str(NL \o FenceJson \o NL \o JB_res_u3 \o NL \o Fence)),
      Returns(Str(JB_u2)),
      Returns(Str(JB_res_5)),
      Returns(Dict([profiles |->
          List(<<[title |-> "x"], [scalar |-> "5"],
                 [class |-> "PositionTitle", position_title |-> "p",
                  linkedin_profile |-> "u3"]>>)])) }

\* answers of the filter agent
FT_spec == FenceJson \o NL \o JB_u1t \o NL \o Fence
FT_plainfence == Fence \o NL \o JB_u2 \o NL \o Fence
FT_ws_fence == NL \o FenceJson \o NL \o JB_u4 \o NL \o Fence \o NL
FT_fence_invalid == FenceJson \o NL \o TXT_oops \o NL \o Fence
FT_unclosed == FenceJson \o NL \o JB_empty

FilterResponses ==
    { Raises,
      Returns(NoneValue),
      Returns(Str(TXT_oops)),
      Returns(Str(FT_fence_invalid)),
      Returns(Str(FT_unclosed)),
      Returns(Str(FT_spec)),
      Returns(Str(FT_plainfence)),
      Returns(Str(FT_ws_fence)),
      Returns(Str(JB_u1g_u2)),
      Returns(Str(JB_dups)),
      Returns(Str(JB_many)),
      Returns(Str(JB_dict_u1)),
      Returns(Str(JB_mixed)) }

(***************************************************************************)
(* utility.py: improved_search                                             *)
(***************************************************************************)
\* line 167 and line 197: the query of a title, as the pieces of the f-string
QueryA(title) == <<title, " at ", company, ". ">>
QueryB(title) ==
    <<title, " ", company,
      " site:linkedin.com get Name, Position, complete work history and experience and previous roles in content Section">>

Control(p, att, i, pool, res) ==
    [pc |-> p, attempt |-> att, idx |-> i, all_profiles |-> pool, result |-> res,
     profiles_needed |-> profiles_needed]

\* variant of LoopTop: the pool of the attempt before is kept
RECURSIVE LoopTop_KeepsPool(_, _, _)
LoopTop_KeepsPool(att, pool, acc) ==
    IF att <= max_retries
    THEN IF position_titles # <<>>
         THEN Control("A_call", att, 1, pool, NoResult)
         ELSE LoopTop_KeepsPool(att + 1, pool, acc)
    ELSE Control("returned", att, 0, pool, [kind |-> "return", v |-> acc])

\* variant of LoopTop: the loop runs while attempt <= max_retries + 1
RECURSIVE LoopTop_OneMore(_, _, _)
LoopTop_OneMore(att, pool, acc) ==
    IF att <= max_retries + 1
    THEN IF position_titles # <<>>
         THEN Control("A_call", att, 1, <<>>, NoResult)
         ELSE LoopTop_OneMore(att + 1, <<>>, acc)
    ELSE Control("returned", att, 0, pool, [kind |-> "return", v |-> acc])

\* lines 158-160, 166, 256-258: the head of the while loop with the attempt
\* counter at att.  Without titles neither stage calls the agent and the pool
\* stays empty, so the attempt ends at line 255 and the loop goes round.
RECURSIVE LoopTop(_, _, _)
LoopTop(att, pool, acc) ==
    IF att <= max_retries
    THEN IF position_titles # <<>>
         THEN Control("A_call", att, 1, <<>>, NoResult)
         ELSE LoopTop(att + 1, <<>>, acc)
    ELSE Control("returned", att, 0, pool, [kind |-> "return", v |-> acc])

\* variant of AfterStageB: the filter is always asked for desired_profile
AfterStageB_AsksAll(att, pool, acc) ==
    IF deduplicate_by_url(pool) # <<>>
    THEN [Control("F_call", att, 0, pool, NoResult)
             EXCEPT !.profiles_needed = desired_profile]
    ELSE LoopTop(att + 1, pool, acc)

\* lines 212-225 and 254-256: after Stage B, filter the pool (asking for the
\* profiles still needed) unless it is empty
AfterStageB(att, pool, acc) ==
    IF deduplicate_by_url(pool) # <<>>
    THEN [Control("F_call", att, 0, pool, NoResult)
             EXCEPT !.profiles_needed = desired_profile - Len(acc)]
    ELSE LoopTop(att + 1, pool, acc)

\* variant of AfterStageA: Stage B runs over all of position_titles
AfterStageA_FromFirst(att, pool, acc) ==
    IF Len(deduplicate_by_url(pool)) < desired_profile /\ Len(position_titles) >= 2
    THEN Control("B_call", att, 1, pool, NoResult)
    ELSE AfterStageB(att, pool, acc)

\* variant of AfterStageA: Stage B also runs with exactly desired_profile
\* unique profiles
AfterStageA_AtMost(att, pool, acc) ==
    IF Len(deduplicate_by_url(pool)) <= desired_profile /\ Len(position_titles) >= 2
    THEN Control("B_call", att, 2, pool, NoResult)
    ELSE AfterStageB(att, pool, acc)

\* lines 182-195: after Stage A, Stage B runs over position_titles[1:] when
\* fewer than desired_profile unique profiles were found
AfterStageA(att, pool, acc) ==
    IF Len(deduplicate_by_url(pool)) < desired_profile /\ Len(position_titles) >= 2
    THEN Control("B_call", att, 2, pool, NoResult)
    ELSE AfterStageB(att, pool, acc)

\* the control state is entered: the query of the call that is now awaited
Goto(ctl) ==
    /\ pc' = ctl.pc
    /\ attempt' = ctl.attempt
    /\ idx' = ctl.idx
    /\ all_profiles' = ctl.all_profiles
    /\ result' = ctl.result
    /\ query' = CASE ctl.pc = "A_call" -> QueryA(position_titles[ctl.idx])
                  [] ctl.pc = "B_call" -> QueryB(position_titles[ctl.idx])
                  [] OTHER -> query
    /\ profiles_needed' = ctl.profiles_needed
    \* lines 170 and 200: a search call is issued; line 222: a filter call is
    \* issued with the deduplicated pool of line 212
    /\ search_calls' = search_calls
           + (IF counting /\ ctl.pc \in {"A_call", "B_call"} THEN 1 ELSE 0)
    /\ filter_calls' = filter_calls + (IF counting /\ ctl.pc = "F_call" THEN 1 ELSE 0)
    /\ pool_urls' = pool_urls
           \cup (IF counting /\ ctl.pc = "F_call"
                 THEN LET unique_profiles == deduplicate_by_url(ctl.all_profiles)
                      IN {Get(unique_profiles[i], "url", PyNone) :
                              i \in 1..Len(unique_profiles)}
                 ELSE {})

\* lines 155-157: improved_search is entered
improved_search_enter ==
    /\ pc = "entry"
    /\ accumulated_profiles' = <<>>
    /\ accumulated_urls' = {}
    /\ Goto(LoopTop(0, <<>>, <<>>))
    /\ UNCHANGED <<api_vars, main_vars, search_args, agent_result, filter_result,
                   filtered_profiles>>

\* lines 170 and 200: the awaited search call returns or raises.  The raw
\* pool the answers build up is bounded by MaxPool.
SearchCallEnds(r) ==
    /\ pc \in {"A_call", "B_call"}
    /\ LET found == IF r.kind = "return" THEN extract_profiles(r.final_output) ELSE Raised
       IN found.ok => Len(all_profiles) + Len(found.v) <= MaxPool
    /\ agent_result' = r
    /\ pc' = IF pc = "A_call" THEN "A_got" ELSE "B_got"
    /\ UNCHANGED <<api_vars, main_vars, search_args, attempt, all_profiles,
                   accumulated_profiles, accumulated_urls, query, profiles_needed,
                   filter_result, filtered_profiles, idx, result, call_log>>

\* lines 171-172 and 201-202, under the try of lines 169/199: the pool after
\* the answer; an exception leaves it as it was
PoolAfter(pool, r) ==
    LET found == IF r.kind = "return" THEN extract_profiles(r.final_output) ELSE Raised
    IN IF found.ok THEN pool \o found.v ELSE pool

\* variant of StopA: the stage stops with exactly 2 * desired_profile
StopA_AtLeast(pool, r) ==
    /\ r.kind = "return" /\ extract_profiles(r.final_output).ok
    /\ Len(deduplicate_by_url(pool)) >= 2 * desired_profile

\* variant of StopA: an exception of the search call ends the stage
StopA_OnRaise(pool, r) ==
    \/ r.kind = "raise"
    \/ /\ r.kind = "return" /\ extract_profiles(r.final_output).ok
       /\ Len(deduplicate_by_url(pool)) > 2 * desired_profile

\* lines 175-178: Stage A stops early; nothing is checked after an exception
StopA(pool, r) ==
    /\ r.kind = "return" /\ extract_profiles(r.final_output).ok
    /\ Len(deduplicate_by_url(pool)) > 2 * desired_profile

\* lines 205-208: Stage B stops early
StopB(pool, r) ==
    /\ r.kind = "return" /\ extract_profiles(r.final_output).ok
    /\ Len(deduplicate_by_url(pool)) >= desired_profile

\* variant of StageA_resume: the call for the next title is issued without
\* awaiting the answer for this one
StageA_resume_NoAwait ==
    /\ pc \in {"A_call", "A_got"}
    /\ LET pool == PoolAfter(all_profiles, agent_result)
       IN IF ~StopA(pool, agent_result) /\ idx < Len(position_titles)
          THEN Goto(Control("A_call", attempt, idx + 1, pool, NoResult))
          ELSE Goto(AfterStageA(attempt, pool, accumulated_profiles))
    /\ agent_result' = NoResult
    /\ UNCHANGED <<api_vars, main_vars, search_args, accumulated_profiles,
                   accumulated_urls, filter_result, filtered_profiles>>

\* lines 171-182: Stage A goes on after the answer for the title at idx
StageA_resume ==
    /\ pc = "A_got"
    /\ LET pool == PoolAfter(all_profiles, agent_result)
       IN IF ~StopA(pool, agent_result) /\ idx < Len(position_titles)
          THEN Goto(Control("A_call", attempt, idx + 1, pool, NoResult))
          ELSE Goto(AfterStageA(attempt, pool, accumulated_profiles))
    \* the answer is not read again
    /\ agent_result' = NoResult
    /\ UNCHANGED <<api_vars, main_vars, search_args, accumulated_profiles,
                   accumulated_urls, filter_result, filtered_profiles>>

\* lines 201-212: Stage B goes on after the answer for the title at idx
StageB_resume ==
    /\ pc = "B_got"
    /\ LET pool == PoolAfter(all_profiles, agent_result)
       IN IF ~StopB(pool, agent_result) /\ idx < Len(position_titles)
          THEN Goto(Control("B_call", attempt, idx + 1, pool, NoResult))
          ELSE Goto(AfterStageB(attempt, pool, accumulated_profiles))
    /\ agent_result' = NoResult
    /\ UNCHANGED <<api_vars, main_vars, search_args, accumulated_profiles,
                   accumulated_urls, filter_result, filtered_profiles>>

\* variant of FilterParse: the closing fence is left on the text
FilterParse_KeepsFence(final_output) ==
    IF TypeOf(final_output) # "str" THEN List(<<>>)
    ELSE LET output == Strip(Val(final_output))
             body == IF StartsWith(output, FenceJson) /\ EndsWith(output, Fence)
                     THEN Strip(DropFirst(output, 7))
                     ELSE IF StartsWith(output, Fence) /\ EndsWith(output, Fence)
                     THEN Strip(DropFirst(output, 3))
                     ELSE output
             loaded == JsonLoads(body)
         IN IF loaded.ok THEN loaded.v ELSE List(<<>>)

\* lines 229-239: the filter agent's output as a value; anything that goes
\* wrong (no str, no JSON) gives the empty list
FilterParse(final_output) ==
    IF TypeOf(final_output) # "str" THEN List(<<>>)
    ELSE LET output == Strip(Val(final_output))
             body == IF StartsWith(output, FenceJson) /\ EndsWith(output, Fence)
                     THEN Strip(SliceInner(output, 7, 3))
                     ELSE IF StartsWith(output, Fence) /\ EndsWith(output, Fence)
                     THEN Strip(SliceInner(output, 3, 3))
                     ELSE output
             loaded == JsonLoads(body)
         IN IF loaded.ok THEN loaded.v ELSE List(<<>>)

\* lines 222-239: the awaited filter call returns, and its output is parsed,
\* or it raises, and the exception leaves improved_search
FilterCallEnds(r) ==
    /\ pc = "F_call"
    /\ IF r.kind = "raise"
       THEN /\ pc' = "raised"
            /\ result' = Raises
            /\ UNCHANGED <<filter_result, filtered_profiles>>
       ELSE /\ pc' = "F_got"
            /\ filter_result' = r
            /\ filtered_profiles' = FilterParse(r.final_output)
            /\ UNCHANGED result
    /\ UNCHANGED <<api_vars, main_vars, search_args, attempt, all_profiles,
                   accumulated_profiles, accumulated_urls, query, agent_result,
                   profiles_needed, idx, call_log>>

\* "for p in filtered_profiles": what the loop visits.  The keys of a
\* mapping are strings; a number or None cannot be iterated.
Iterable(value) == TypeOf(value) \in {"list", "dict", "str"}
IterItems(value) ==
    CASE TypeOf(value) = "list" -> Val(value)
      [] TypeOf(value) = "dict" -> IF DOMAIN Val(value) = {} THEN <<>> ELSE <<[scalar |-> "key"]>>
      [] TypeOf(value) = "str" -> [i \in 1..Len(Val(value)) |-> [scalar |-> Val(value)[i]]]
      [] OTHER -> <<>>

\* variant of MergeFrom: the url is not tested for being empty
RECURSIVE MergeFrom_AnyUrl(_, _, _)
MergeFrom_AnyUrl(items, urls, new_profiles) ==
    IF items = <<>> THEN [ok |-> TRUE, urls |-> urls, new_profiles |-> new_profiles]
    ELSE LET p == Head(items)
         IN IF ~IsMapping(p)
            THEN [ok |-> FALSE, urls |-> urls, new_profiles |-> new_profiles]
            ELSE LET url == Get(p, "url", PyNone)
                 IN IF url \notin urls
                    THEN MergeFrom_AnyUrl(Tail(items), urls \cup {url}, Append(new_profiles, p))
                    ELSE MergeFrom_AnyUrl(Tail(items), urls, new_profiles)

\* lines 241-246: the loop over the filtered profiles.  p.get on an element
\* that is no mapping raises; accumulated_urls then keeps what was added.
RECURSIVE MergeFrom(_, _, _)
MergeFrom(items, urls, new_profiles) ==
    IF items = <<>> THEN [ok |-> TRUE, urls |-> urls, new_profiles |-> new_profiles]
    ELSE LET p == Head(items)
         IN IF ~IsMapping(p)
            THEN [ok |-> FALSE, urls |-> urls, new_profiles |-> new_profiles]
            ELSE LET url == Get(p, "url", PyNone)
                 IN IF Truthy(url) /\ url \notin urls
                    THEN MergeFrom(Tail(items), urls \cup {url}, Append(new_profiles, p))
                    ELSE MergeFrom(Tail(items), urls, new_profiles)

\* variant of AfterMerge: the last desired_profile accumulated are returned
AfterMerge_ReturnsLast(att, pool, acc) ==
    IF Len(acc) >= desired_profile
    THEN Control("returned", att, 0, pool,
                 [kind |-> "return",
                  v |-> SubSeq(acc, Len(acc) - Min(Len(acc), Max(desired_profile, 0)) + 1,
                               Len(acc))])
    ELSE LoopTop(att + 1, pool, acc)

\* variant of AfterMerge: everything accumulated is returned
AfterMerge_NoSlice(att, pool, acc) ==
    IF Len(acc) >= desired_profile
    THEN Control("returned", att, 0, pool, [kind |-> "return", v |-> acc])
    ELSE LoopTop(att + 1, pool, acc)

\* variant of AfterMerge: it returns only with more than desired_profile
AfterMerge_StrictlyMore(att, pool, acc) ==
    IF Len(acc) > desired_profile
    THEN Control("returned", att, 0, pool,
                 [kind |-> "return", v |-> SlicePrefix(acc, desired_profile)])
    ELSE LoopTop(att + 1, pool, acc)

\* lines 249-256: with enough profiles the first desired_profile are
\* returned, otherwise the next attempt starts
AfterMerge(att, pool, acc) ==
    IF Len(acc) >= desired_profile
    THEN Control("returned", att, 0, pool,
                 [kind |-> "return", v |-> SlicePrefix(acc, desired_profile)])
    ELSE LoopTop(att + 1, pool, acc)

\* lines 240-256: the filtered profiles are merged into the accumulator
Merge ==
    /\ pc = "F_got"
    /\ IF ~Iterable(filtered_profiles)
       THEN /\ pc' = "raised"
            /\ result' = Raises
            /\ UNCHANGED <<attempt, idx, all_profiles, query, profiles_needed,
                           accumulated_profiles, accumulated_urls, call_log>>
       ELSE LET m == MergeFrom(IterItems(filtered_profiles), accumulated_urls, <<>>)
            IN /\ accumulated_urls' = m.urls
               /\ IF m.ok
                  THEN /\ accumulated_profiles' = accumulated_profiles \o m.new_profiles
                       /\ Goto(AfterMerge(attempt, all_profiles, accumulated_profiles'))
                  ELSE /\ pc' = "raised"
                       /\ result' = Raises
                       /\ UNCHANGED <<attempt, idx, all_profiles, query, profiles_needed,
                                      accumulated_profiles, call_log>>
    \* the output is not read again
    /\ filter_result' = NoResult
    /\ filtered_profiles' = NoneValue
    /\ UNCHANGED <<api_vars, main_vars, search_args, agent_result>>

improved_search ==
    \/ improved_search_enter
    \/ \E r \in SearchResponses : SearchCallEnds(r)
    \/ StageA_resume
    \/ StageB_resume
    \/ \E r \in FilterResponses : FilterCallEnds(r)
    \/ Merge

(***************************************************************************)
(* improved_search called on its own, with arguments from bounded sets.    *)
(***************************************************************************)
TitleLists == {<<>>, <<"CTO">>, <<"CTO", "VP">>, <<"CTO", "VP", "Dir">>}
DesiredValues == {-1, 0} \cup (1..MaxDesired)
Companies == {"Acme"}

NoCall ==
    /\ attempt = 0
    /\ all_profiles = <<>>
    /\ accumulated_profiles = <<>>
    /\ accumulated_urls = {}
    /\ query = <<>>
    /\ agent_result = NoResult
    /\ profiles_needed = 0
    /\ filter_result = NoResult
    /\ filtered_profiles = NoneValue
    /\ idx = 0
    /\ result = NoResult
    /\ search_calls = 0
    /\ filter_calls = 0
    /\ pool_urls = {}

InitSearch ==
    /\ job_status = <<>>
    /\ now = 0
    /\ company_file = <<>>
    /\ request_id = ""
    /\ task_pc = "none"
    /\ response = NoResponse
    /\ other_tasks = <<>>
    /\ main_pc = "none"
    /\ main_result = NoResult
    /\ company \in Companies
    /\ position_titles \in TitleLists
    /\ desired_profile \in DesiredValues
    /\ max_retries \in 0..MaxRetriesArg
    /\ counting = FALSE
    /\ pc = "entry"
    /\ NoCall

SpecSearch == InitSearch /\ [][improved_search]_vars

(***************************************************************************)
(* improved_search called on its own, with the log of its calls kept.      *)
(***************************************************************************)
InitCalls ==
    /\ job_status = <<>>
    /\ now = 0
    /\ company_file = <<>>
    /\ request_id = ""
    /\ task_pc = "none"
    /\ response = NoResponse
    /\ other_tasks = <<>>
    /\ main_pc = "none"
    /\ main_result = NoResult
    /\ company \in Companies
    /\ position_titles \in TitleLists
    /\ desired_profile \in DesiredValues
    /\ max_retries \in 0..MaxRetriesArg
    /\ counting = TRUE
    /\ pc = "entry"
    /\ NoCall

SpecCalls == InitCalls /\ [][improved_search]_vars

(***************************************************************************)
(* main.py: main                                                           *)
(***************************************************************************)
\* line 161: main always asks for two retries
MainMaxRetries == 2

\* lines 150-154
FallbackTitles ==
    <<"VP of R&D", "Head of R&D", "CTO", "CIO", "Director of Innovation",
      "Head of Digital Transformation", "VP Engineering", "Chief Innovation Officer">>

\* answers of the title-generation agent (root_agent)
RootResponses ==
    { Raises,
      Returns(NoneValue),
      Returns(Str(<<>>)),
      Returns(Str(TXT_short)),
      Returns(Str(JB_empty)),
      Returns(Str(JB_titles1)),
      Returns(Str(TXT_titles_prefix \o JB_titles2)),
      Returns(Str(TXT_lines)),
      Returns(Str(TXT_badjson)) }

\* lines 144-154: the generated titles, or the fallback titles when there
\* are none
TitlesOrFallback(titles) == IF Falsy(titles) THEN FallbackTitles ELSE Val(titles)

\* lines 133-161 and 170-174: the awaited title generation returns or raises.
\* An exception ends main with None; otherwise the titles are parsed and
\* improved_search is called.
main_titles(r) ==
    /\ main_pc = "root_call"
    /\ IF r.kind = "raise"
       THEN /\ main_pc' = "returned"
            /\ main_result' = NoneValue
            /\ UNCHANGED <<position_titles, max_retries, pc>>
       ELSE /\ position_titles' = TitlesOrFallback(parse_position_titles(r.final_output))
            /\ max_retries' = MainMaxRetries
            /\ pc' = "entry"
            /\ main_pc' = "in_search"
            /\ UNCHANGED main_result
    /\ UNCHANGED <<api_vars, company, desired_profile, counting, search_locals, idx, result>>

\* lines 161-174: improved_search has ended; main returns its list, or None
\* when an exception left it
main_return ==
    /\ main_pc = "in_search"
    /\ pc \in {"returned", "raised"}
    /\ main_result' = IF pc = "returned" THEN List(result.v) ELSE NoneValue
    /\ main_pc' = "returned"
    /\ UNCHANGED <<api_vars, search_vars>>

(***************************************************************************)
(* api.py: search_prospects, process_prospect_search                       *)
(***************************************************************************)
RequestIds == {"r1"}
\* datetime.now().isoformat() at clock value n
IsoFormat(n) == [time |-> n]
\* what constructing the agents (main.py lines 46-120) can raise
AgentErrors == {"experimental_allow_partial unsupported", "boom"}
PartialError(err) == err = "experimental_allow_partial unsupported"

\* job_status[rid] = job
SetJob(rid, job) == [r \in DOMAIN job_status \cup {rid} |-> IF r = rid THEN job ELSE job_status[r]]
\* variant of UpdateJob: the changes are written to every job record
UpdateJob_AllJobs(rid, changes) ==
    [r \in DOMAIN job_status |->
        [k \in DOMAIN job_status[r] |->
            IF k \in DOMAIN changes THEN changes[k] ELSE job_status[r][k]]]

\* job_status[rid].update(changes)
UpdateJob(rid, changes) ==
    [job_status EXCEPT ![rid] =
        [k \in DOMAIN job_status[rid] |->
            IF k \in DOMAIN changes THEN changes[k] ELSE job_status[rid][k]]]

\* variant of search_prospects: the record is created with status queued
search_prospects_Queued(rid, comp, max_profiles) ==
    /\ task_pc = "none"
    /\ rid \notin DOMAIN job_status
    /\ job_status' = SetJob(rid,
            [status |-> "queued", message |-> <<"Search initiated">>,
             profiles |-> NoneValue, created_at |-> IsoFormat(now),
             completed_at |-> NoneValue, error |-> PyNone])
    /\ now' = now + 1
    /\ request_id' = rid
    /\ company' = comp
    /\ desired_profile' = max_profiles
    /\ task_pc' = "scheduled"
    /\ UNCHANGED <<company_file, response, other_tasks, main_vars, position_titles, max_retries,
                   counting,
                   search_locals, pc, idx, result>>

\* lines 110-139: a search request is accepted and the background task is
\* scheduled with the request's company and max_profiles
search_prospects(rid, comp, max_profiles) ==
    /\ task_pc = "none"
    /\ rid \notin DOMAIN job_status
    /\ job_status' = SetJob(rid,
            [status |-> "processing", message |-> <<"Search initiated">>,
             profiles |-> NoneValue, created_at |-> IsoFormat(now),
             completed_at |-> NoneValue, error |-> PyNone])
    /\ now' = now + 1
    /\ request_id' = rid
    /\ company' = comp
    /\ desired_profile' = max_profiles
    /\ task_pc' = "scheduled"
    /\ UNCHANGED <<company_file, response, other_tasks, main_vars, position_titles, max_retries,
                   counting,
                   search_locals, pc, idx, result>>

\* lines 232-268 with main.py lines 46-133: the task starts, main builds its
\* agents and awaits the title generation; an exception out of main is an
\* error of the job
process_start(err) ==
    /\ task_pc = "scheduled"
    /\ IF request_id \notin DOMAIN job_status
       \* line 236 raises KeyError, and so does line 326 in the handler of
       \* line 324: the exception leaves the task
       THEN /\ task_pc' = "crashed"
            /\ UNCHANGED <<job_status, now, main_pc>>
       ELSE
       LET started == UpdateJob(request_id,
                [status |-> "processing", message |-> <<"Searching for prospects...">>])
       IN IF err = ""
          THEN /\ job_status' = started
               /\ main_pc' = "root_call"
               /\ task_pc' = "in_main"
               /\ now' = now
          ELSE /\ job_status' =
                    [started EXCEPT ![request_id] =
                        [@ EXCEPT !.status = "error",
                                  !.message =
                                      IF PartialError(err)
                                      THEN <<"Search failed due to dependency compatibility issue: ",
                                             "Pydantic version compatibility issue detected. Please ensure you have the correct version of dependencies installed.">>
                                      ELSE <<"Search failed: ", err>>,
                                  !.error = err,
                                  !.completed_at = IsoFormat(now)]]
               /\ now' = now + 1
               /\ task_pc' = "done"
               /\ UNCHANGED main_pc
    /\ UNCHANGED <<company_file, request_id, response, other_tasks, main_result, search_vars>>

\* variant of ProfileDicts: only FilteredProfile instances are kept, and the
\* workflow returns none
ProfileDicts_OnlyInstances(profiles) == <<>>

\* lines 291-301: the dict elements of the profiles
RECURSIVE ProfileDicts(_)
ProfileDicts(profiles) ==
    IF profiles = <<>> THEN <<>>
    ELSE (IF IsMapping(Head(profiles)) THEN <<Head(profiles)>> ELSE <<>>)
         \o ProfileDicts(Tail(profiles))

\* variant of process_finish: the task assigns a whole record to
\* job_status[request_id] where the code updates the fields of the record
\* that is there
process_finish_Recreates(write_ok) ==
    /\ task_pc = "in_main"
    /\ main_pc = "returned"
    /\ job_status' = SetJob(request_id,
           [status |-> "completed", message |-> <<"Search completed successfully.">>,
            profiles |-> List(IF Falsy(main_result) THEN <<>>
                              ELSE ProfileDicts(Val(main_result))),
            created_at |-> IsoFormat(now), completed_at |-> IsoFormat(now),
            error |-> PyNone])
    /\ now' = now + 1
    /\ task_pc' = "done"
    /\ UNCHANGED <<company_file, request_id, response, other_tasks, main_vars, search_vars>>

\* variant of process_finish: the task gives the event loop back after it has
\* stored the profiles (line 302), before the status is written
process_finish_AwaitsAfterStore(write_ok) ==
    /\ task_pc = "in_main"
    /\ main_pc = "returned"
    /\ request_id \in DOMAIN job_status
    /\ job_status' = UpdateJob(request_id,
           [profiles |-> List(IF Falsy(main_result) THEN <<>>
                              ELSE ProfileDicts(Val(main_result)))])
    /\ task_pc' = "done"
    /\ UNCHANGED <<company_file, now, request_id, response, other_tasks, main_vars,
                   search_vars>>

\* lines 270-322: main has returned; the profiles are stored and appended to
\* the company file (a failed write is only logged); the job is completed
process_finish(write_ok) ==
    /\ task_pc = "in_main"
    /\ main_pc = "returned"
    /\ IF request_id \notin DOMAIN job_status
       \* line 302 or 318 raises KeyError before anything is written, and so
       \* does line 326 in the handler of line 324
       THEN /\ task_pc' = "crashed"
            /\ UNCHANGED <<job_status, company_file, now>>
       ELSE
       LET profiles == main_result
           profile_dicts ==
               IF Falsy(profiles) THEN <<>>
               ELSE IF TypeOf(profiles) = "list" THEN ProfileDicts(Val(profiles))
               ELSE <<>>
           written == ~Falsy(profiles) /\ write_ok
       IN /\ job_status' = UpdateJob(request_id,
                  [profiles |-> List(profile_dicts), status |-> "completed",
                   message |-> <<"Search completed successfully.">>,
                   completed_at |-> IsoFormat(IF written THEN now + 1 ELSE now)])
          /\ company_file' =
                 IF written
                 THEN Append(company_file,
                             [timestamp |-> IsoFormat(now), company |-> company,
                              profiles |-> profile_dicts])
                 ELSE company_file
          /\ now' = IF written THEN now + 2 ELSE now + 1
          /\ task_pc' = "done"
    /\ UNCHANGED <<request_id, response, other_tasks, main_vars, search_vars>>

(***************************************************************************)
(* The service with one request: it is submitted, and its background task  *)
(* runs main and improved_search to the end.                               *)
(***************************************************************************)
Init ==
    /\ job_status = <<>>
    /\ now = 0
    /\ company_file = <<>>
    /\ request_id = ""
    /\ task_pc = "none"
    /\ response = NoResponse
    /\ other_tasks = <<>>
    /\ main_pc = "none"
    /\ main_result = NoResult
    /\ company = ""
    /\ position_titles = <<>>
    /\ desired_profile = 0
    /\ max_retries = 0
    /\ counting = FALSE
    /\ pc = "none"
    /\ NoCall

Next ==
    \/ \E rid \in RequestIds, comp \in Companies, max_profiles \in DesiredValues :
           search_prospects(rid, comp, max_profiles)
    \/ \E err \in {""} \cup AgentErrors : process_start(err)
    \/ \E r \in RootResponses : main_titles(r)
    \/ main_return
    \/ \E write_ok \in BOOLEAN : process_finish(write_ok)
    \/ improved_search

Spec == Init /\ [][Next]_vars

(***************************************************************************)
(* api.py: get_search_status, list_searches, delete_search                 *)
(***************************************************************************)
\* lines 158-176: the stored profiles as a list
StoredProfiles(stored) ==
    LET profiles == IF Falsy(stored) THEN List(<<>>) ELSE stored
        parsed ==
            IF TypeOf(profiles) = "str"
            THEN LET loaded == JsonLoads(StripFenceRaw(Val(profiles)))
                 IN IF loaded.ok THEN loaded.v ELSE List(<<>>)
            ELSE profiles
    IN IF TypeOf(parsed) = "list" THEN Val(parsed) ELSE <<>>

\* lines 178-188: one profile with all four fields per mapping element
RECURSIVE ValidProfiles(_)
ValidProfiles(profiles) ==
    IF profiles = <<>> THEN <<>>
    ELSE LET p == Head(profiles)
         IN (IF IsMapping(p)
             THEN <<[title |-> Get(p, "title", ""), url |-> Get(p, "url", ""),
                     content |-> Get(p, "content", ""), score |-> Get(p, "score", 0)]>>
             ELSE <<>>)
            \o ValidProfiles(Tail(profiles))

\* variant of get_search_status: the normalised profiles are stored in the
\* job record
get_search_status_Stores(rid) ==
    /\ response' =
           IF rid \notin DOMAIN job_status
           THEN [op |-> "get_search_status", code |-> 404]
           ELSE LET job == job_status[rid]
                IN [op |-> "get_search_status", code |-> 200, request_id |-> rid,
                    status |-> job.status, message |-> job.message,
                    profiles |-> ValidProfiles(StoredProfiles(job.profiles)),
                    created_at |-> job.created_at, completed_at |-> job.completed_at]
    /\ job_status' =
           IF rid \notin DOMAIN job_status THEN job_status
           ELSE UpdateJob(rid,
                    [profiles |-> List(ValidProfiles(StoredProfiles(job_status[rid].profiles)))])
    /\ UNCHANGED <<now, company_file, request_id, task_pc, other_tasks, main_vars, search_vars>>

\* lines 152-197: a status poll; the job record is read, the profiles are
\* normalised in a local list
get_search_status(rid) ==
    /\ response' =
           IF rid \notin DOMAIN job_status
           THEN [op |-> "get_search_status", code |-> 404]
           ELSE LET job == job_status[rid]
                IN [op |-> "get_search_status", code |-> 200, request_id |-> rid,
                    status |-> job.status, message |-> job.message,
                    profiles |-> ValidProfiles(StoredProfiles(job.profiles)),
                    created_at |-> job.created_at, completed_at |-> job.completed_at]
    /\ UNCHANGED <<job_status, now, company_file, request_id, task_pc, other_tasks, main_vars,
                   search_vars>>

\* the records of job_status one after the other
RECURSIVE Searches(_)
Searches(ids) ==
    IF ids = {} THEN <<>>
    ELSE LET req_id == CHOOSE r \in ids : TRUE
         IN <<[request_id |-> req_id, status |-> job_status[req_id].status,
               created_at |-> job_status[req_id].created_at,
               completed_at |-> job_status[req_id].completed_at]>>
            \o Searches(ids \ {req_id})

\* lines 204-215: the listing of all jobs
list_searches ==
    /\ response' = [op |-> "list_searches", code |-> 200,
                    searches |-> Searches(DOMAIN job_status),
                    total |-> Cardinality(DOMAIN job_status)]
    /\ UNCHANGED <<job_status, now, company_file, request_id, task_pc, other_tasks, main_vars,
                   search_vars>>

\* lines 222-226: a job record is deleted, whatever its task is doing
delete_search(rid) ==
    /\ IF rid \notin DOMAIN job_status
       THEN /\ response' = [op |-> "delete_search", code |-> 404]
            /\ UNCHANGED job_status
       ELSE /\ job_status' = [r \in DOMAIN job_status \ {rid} |-> job_status[r]]
            /\ response' = [op |-> "delete_search", code |-> 200]
    /\ UNCHANGED <<now, company_file, request_id, task_pc, other_tasks, main_vars, search_vars>>

(***************************************************************************)
(* The service as its clients see it: requests of all four kinds arrive    *)
(* while the background task runs.  What main does between its start and   *)
(* its return touches no state of api.py, so here the awaited call of line *)
(* 242 ends with one of the values main returns: None (main.py line 174)   *)
(* or the list of improved_search (line 168).                              *)
(***************************************************************************)
MainResults ==
    { NoneValue,
      List(<<>>),
      List(<<[url |-> "u1", title |-> "t"]>>),
      List(<<[url |-> "u1", title |-> "g"], [url |-> "u2"]>>) }

\* api.py line 242: the awaited main returns
main_ends(r) ==
    /\ task_pc = "in_main"
    /\ main_pc = "root_call"
    /\ main_pc' = "returned"
    /\ main_result' = r
    /\ UNCHANGED <<api_vars, search_vars>>

NextApi ==
    \/ \E rid \in RequestIds, comp \in Companies, max_profiles \in DesiredValues :
           search_prospects(rid, comp, max_profiles)
    \/ \E err \in {""} \cup AgentErrors : process_start(err)
    \/ \E r \in MainResults : main_ends(r)
    \/ \E write_ok \in BOOLEAN : process_finish(write_ok)
    \/ \E rid \in RequestIds : get_search_status(rid)
    \/ list_searches
    \/ \E rid \in RequestIds : delete_search(rid)

SpecApi == Init /\ [][NextApi]_vars

(***************************************************************************)
(* Several jobs at once.  The event loop runs one background task at a     *)
(* time; a task leaves the loop's hands where it awaits (api.py line 242)  *)
(* and before it has started (line 125), and then another request is       *)
(* served or another task goes on.  The variables request_id, task_pc,     *)
(* main_pc, main_result, company and desired_profile are the frame of the  *)
(* task that runs; other_tasks holds the frames of the others.             *)
(***************************************************************************)
JobIds == {"r1", "r2"}

\* the arguments and the position of the running task
TaskFrame ==
    [task_pc |-> task_pc, main_pc |-> main_pc, main_result |-> main_result,
     company |-> company, desired_profile |-> desired_profile]

\* the event loop leaves the running task
task_suspend ==
    /\ task_pc # "none"
    /\ other_tasks' =
           [r \in DOMAIN other_tasks \cup {request_id} |->
               IF r = request_id THEN TaskFrame ELSE other_tasks[r]]
    /\ request_id' = ""
    /\ task_pc' = "none"
    /\ main_pc' = "none"
    /\ main_result' = NoResult
    /\ company' = ""
    /\ desired_profile' = 0
    /\ UNCHANGED <<job_status, now, company_file, response, position_titles, max_retries,
                   counting,
                   search_locals, pc, idx, result>>

\* the event loop goes on with the task of request rid
task_resume(rid) ==
    /\ task_pc = "none"
    /\ rid \in DOMAIN other_tasks
    /\ request_id' = rid
    /\ task_pc' = other_tasks[rid].task_pc
    /\ main_pc' = other_tasks[rid].main_pc
    /\ main_result' = other_tasks[rid].main_result
    /\ company' = other_tasks[rid].company
    /\ desired_profile' = other_tasks[rid].desired_profile
    /\ other_tasks' = [r \in DOMAIN other_tasks \ {rid} |-> other_tasks[r]]
    /\ UNCHANGED <<job_status, now, company_file, response, position_titles, max_retries,
                   counting,
                   search_locals, pc, idx, result>>

\* the steps of the running background task
task_step ==
    \/ \E err \in {""} \cup AgentErrors : process_start(err)
    \/ \E r \in MainResults : main_ends(r)
    \/ \E write_ok \in BOOLEAN : process_finish(write_ok)

NextJobs ==
    \/ \E rid \in JobIds \ DOMAIN other_tasks, comp \in Companies,
          max_profiles \in DesiredValues :
           search_prospects(rid, comp, max_profiles)
    \/ task_step
    \/ task_suspend
    \/ \E rid \in JobIds : task_resume(rid)
    \/ \E rid \in JobIds : delete_search(rid)

SpecJobs == Init /\ [][NextJobs]_vars

(***************************************************************************)
(* deduplicate_by_url called on its own, on sequences of profile records   *)
(* of up to MaxSeq elements, and again on what it returned.                *)
(***************************************************************************)
DedupRecords ==
    { [url |-> "u1", title |-> "a"],
      [url |-> "u1", title |-> "b"],
      [url |-> "u2", title |-> "a"],
      [url |-> "", title |-> "e"],
      [url |-> PyNone, title |-> "o"],
      [title |-> "n"] }

DedupInputs == UNION {[1..n -> DedupRecords] : n \in 0..MaxSeq}

InitDedup ==
    /\ job_status = <<>>
    /\ now = 0
    /\ company_file = <<>>
    /\ request_id = ""
    /\ task_pc = "none"
    /\ response = NoResponse
    /\ other_tasks = <<>>
    /\ main_pc = "none"
    /\ main_result = NoResult
    /\ company = ""
    /\ position_titles = <<>>
    /\ desired_profile = 0
    /\ max_retries = 0
    /\ counting = FALSE
    /\ attempt = 0
    /\ all_profiles \in DedupInputs
    /\ accumulated_profiles = <<>>
    /\ accumulated_urls = {}
    /\ query = <<>>
    /\ agent_result = NoResult
    /\ profiles_needed = 0
    /\ filter_result = NoResult
    /\ filtered_profiles = NoneValue
    /\ idx = 0
    /\ result = NoResult
    /\ search_calls = 0
    /\ filter_calls = 0
    /\ pool_urls = {}
    /\ pc = "dedup"

\* utility.py lines 136-145: deduplicate_by_url(all_profiles) returns
dedup_call ==
    /\ pc = "dedup"
    /\ result' = [kind |-> "return", v |-> deduplicate_by_url(all_profiles)]
    /\ pc' = "dedup_done"
    /\ UNCHANGED <<api_vars, main_vars, search_args, search_locals, idx>>

\* what was returned is the argument of the next call
dedup_again ==
    /\ pc = "dedup_done"
    /\ all_profiles' = result.v
    /\ result' = NoResult
    /\ pc' = "dedup"
    /\ UNCHANGED <<api_vars, main_vars, search_args, attempt, accumulated_profiles,
                   accumulated_urls, query, agent_result, profiles_needed, filter_result,
                   filtered_profiles, idx, call_log>>

NextDedup == dedup_call \/ dedup_again

SpecDedup == InitDedup /\ [][NextDedup]_vars

(***************************************************************************)
(* Properties.                                                             *)
(***************************************************************************)
UrlOf(p) == Get(p, "url", PyNone)
UrlsOf(profiles) == {UrlOf(profiles[i]) : i \in 1..Len(profiles)}
DistinctUrls(profiles) ==
    \A i, j \in 1..Len(profiles) : UrlOf(profiles[i]) = UrlOf(profiles[j]) => i = j
Ended == pc \in {"returned", "raised"}

\* C1: for desired_profile >= 1, what improved_search returns has at most
\* desired_profile records, also when the filter answers with more records
\* than it was asked for.
C1_BoundedOutput ==
    (pc = "returned" /\ desired_profile >= 1) => Len(result.v) <= desired_profile

\* the filter gave more than was needed, and exactly desired_profile came back
C1_Witness ==
    /\ pc = "returned"
    /\ desired_profile >= 1
    /\ Len(accumulated_profiles) > desired_profile
    /\ Len(result.v) = desired_profile

\* C2: the merge that brings the accumulator to desired_profile records or
\* more ends improved_search in the same attempt, and once it has returned
\* there is no further attempt, search call or filter call.
C2_EarlySuccess ==
    [][ /\ (pc = "F_got" /\ pc' # "raised"
              /\ Len(accumulated_profiles') >= desired_profile)
           => (pc' = "returned" /\ attempt' = attempt
               /\ result' = [kind |-> "return",
                             v |-> SlicePrefix(accumulated_profiles', desired_profile)])
        /\ pc = "returned"
           => (pc' = "returned"
               /\ UNCHANGED <<attempt, query, agent_result, filter_result, result>>)
      ]_vars

\* the first attempt gave enough profiles and retries were left over
C2_Witness ==
    /\ pc = "returned"
    /\ desired_profile >= 1
    /\ attempt = 0
    /\ max_retries >= 1
    /\ Len(result.v) = desired_profile

\* C3 as claimed: whenever improved_search ends with fewer than
\* desired_profile accumulated profiles, it has run max_retries + 1 attempts
\* and returns the accumulated profiles; it never ends with an exception.
C3_ExhaustionReturns ==
    (Ended /\ desired_profile >= 1 /\ Len(accumulated_profiles) < desired_profile)
        => (pc = "returned" /\ attempt = max_retries + 1
            /\ result.v = accumulated_profiles)

\* C4 as claimed: in every state the accumulated profiles have pairwise
\* distinct urls, and these urls are exactly accumulated_urls.
C4_AccumulatorUrls ==
    /\ DistinctUrls(accumulated_profiles)
    /\ UrlsOf(accumulated_profiles) = accumulated_urls

\* C5: a record with an empty or missing url is never in the deduplicated
\* pool, never in accumulated_profiles or accumulated_urls, and never in
\* what improved_search returns.
C5_EmptyUrlExcluded ==
    /\ \A u \in UrlsOf(deduplicate_by_url(all_profiles)) : Truthy(u)
    /\ \A u \in UrlsOf(accumulated_profiles) : Truthy(u)
    /\ \A u \in accumulated_urls : Truthy(u)
    /\ pc = "returned" => \A u \in UrlsOf(result.v) : Truthy(u)

\* the pool holds a record without url, and the filter answer with an empty
\* and a missing url (the only one that leaves just u3) has been merged
C5_Witness ==
    /\ pc = "returned"
    /\ \E i \in 1..Len(all_profiles) : ~Truthy(UrlOf(all_profiles[i]))
    /\ accumulated_profiles = <<[url |-> "u3"]>>
    /\ result.v = accumulated_profiles

\* C6 as claimed: when main has returned None, the finished job is an error
\* with a message and a completion time, and is not completed.
C6_NoneIsJobError ==
    (task_pc = "done" /\ main_pc = "returned" /\ main_result = NoneValue)
        => /\ job_status[request_id].status = "error"
           /\ job_status[request_id].error # PyNone
           /\ job_status[request_id].completed_at # NoneValue

\* C7: a search call that raises leaves the pool as it was, the loop goes to
\* the next title of the stage, and after the last title the attempt goes
\* on; nothing is raised out of improved_search.
C7_SearchRaiseSkipsTitle ==
    [][ (pc \in {"A_got", "B_got"} /\ agent_result.kind = "raise")
        => /\ pc' # "raised"
           /\ attempt' = attempt => all_profiles' = all_profiles
           /\ idx < Len(position_titles)
              => (/\ pc' = (IF pc = "A_got" THEN "A_call" ELSE "B_call")
                  /\ idx' = idx + 1
                  /\ attempt' = attempt)
           /\ deduplicate_by_url(all_profiles) # <<>> => attempt' = attempt
      ]_vars

\* a Stage B call has raised for a title that is not the last, with
\* profiles already in the pool
C7_Witness ==
    /\ pc = "B_got"
    /\ agent_result.kind = "raise"
    /\ idx < Len(position_titles)
    /\ all_profiles # <<>>

\* filter outputs that are no JSON once the fence, if any, is taken off
InvalidFilterOutputs ==
    {Returns(Str(TXT_oops)), Returns(Str(FT_fence_invalid)), Returns(Str(FT_unclosed))}

C9_NoErrorPropagates == pc # "raised"

\* C10 as claimed: whatever the title generation did, main goes on to call
\* improved_search, with titles.
C10_AlwaysSearches ==
    main_pc \in {"in_search", "returned"} => (pc # "none" /\ position_titles # <<>>)

\* C11: a status poll or a listing leaves job_status as it was, also when
\* the profiles sent back differ from the profiles stored.
C11_ReadsLeaveJobs ==
    [][ ((\E rid \in RequestIds : get_search_status(rid)) \/ list_searches)
        => job_status' = job_status ]_vars

\* a poll has answered with profiles that it had to fill in, and the record
\* still holds them as they were stored
C11_Witness ==
    /\ response.op = "get_search_status"
    /\ response.code = 200
    /\ request_id \in DOMAIN job_status
    /\ job_status[request_id].status = "completed"
    /\ response.profiles # <<>>
    /\ job_status[request_id].profiles # List(response.profiles)
    /\ job_status[request_id].profiles = main_result

\* C12 as claimed: the background task never ends by an exception that
\* leaves it, and a task that has ended left an outcome in the job record
\* if the record still exists.
C12_TaskNeverRaises ==
    /\ task_pc # "crashed"
    /\ (task_pc = "done" /\ request_id \in DOMAIN job_status)
       => /\ job_status[request_id].status \in {"completed", "error"}
          /\ job_status[request_id].completed_at # NoneValue

\* C13: a job whose workflow returned a list of fewer profiles than were
\* requested, the empty list included, ends completed, without error, with
\* exactly the returned profiles in its record.
C13_UnderFulfillmentCompletes ==
    (/\ task_pc = "done"
     /\ main_pc = "returned"
     /\ TypeOf(main_result) = "list"
     /\ Len(Val(main_result)) < desired_profile)
    => /\ job_status[request_id].status = "completed"
       /\ job_status[request_id].profiles = main_result
       /\ job_status[request_id].error = PyNone
       /\ job_status[request_id].completed_at # NoneValue

\* two profiles were requested, the workflow used up its attempts and
\* returned one, and the job has ended
C13_Witness ==
    /\ task_pc = "done"
    /\ main_pc = "returned"
    /\ desired_profile = 2
    /\ attempt = max_retries + 1
    /\ main_result = List(accumulated_profiles)
    /\ Len(accumulated_profiles) = 1

\* the step takes the answer for a title of Stage A and ends the stage
StageAEnds == pc = "A_got" /\ ~(pc' = "A_call" /\ attempt' = attempt)

\* C14: when Stage A ends, a Stage B search call follows in the same attempt
\* exactly if the pool then holds fewer than desired_profile unique
\* profiles (and Stage B has a title to search for); a Stage B call never
\* comes from anywhere else than the end of Stage A or Stage B itself.
C14_StageBEntry ==
    [][ LET count == Len(deduplicate_by_url(PoolAfter(all_profiles, agent_result)))
        IN /\ StageAEnds
              => ((pc' = "B_call" /\ attempt' = attempt)
                  <=> (count < desired_profile /\ Len(position_titles) >= 2))
           /\ (StageAEnds /\ count >= desired_profile) => pc' # "B_call"
           /\ pc' = "B_call" => pc \in {"A_got", "B_got"}
           /\ (pc = "B_got" /\ pc' = "B_call") => attempt' = attempt
      ]_vars

\* Stage A gave one unique profile where two are wanted, and the first
\* Stage B call is awaited
C14_Witness ==
    /\ pc = "B_call"
    /\ idx = 2
    /\ desired_profile = 2
    /\ Len(deduplicate_by_url(all_profiles)) = 1

\* C15: Stage A searches for the titles from the first on, in list order;
\* Stage B starts at the second title, goes on in list order and never
\* searches for the first; with one title Stage B makes no call.
C15_TitleOrder ==
    [][ /\ pc' \in {"A_call", "A_got"}
           => /\ idx' \in 1..Len(position_titles)
              /\ query' = QueryA(position_titles[idx'])
        /\ pc' \in {"B_call", "B_got"}
           => /\ idx' \in 2..Len(position_titles)
              /\ query' = QueryB(position_titles[idx'])
              /\ query' # QueryB(position_titles[1])
        /\ (pc # pc' /\ pc' = "A_call")
           => idx' = (IF pc = "A_got" /\ attempt' = attempt THEN idx + 1 ELSE 1)
        /\ (pc # pc' /\ pc' = "B_call")
           => idx' = (IF pc = "B_got" THEN idx + 1 ELSE 2)
        /\ Len(position_titles) = 1 => pc' \notin {"B_call", "B_got"}
      ]_vars

\* Stage B has searched for the second title and now searches for the third
C15_Witness ==
    /\ pc = "B_call"
    /\ idx = 3
    /\ query = QueryB(position_titles[3])

\* the step takes the answer for a title of Stage B and ends the stage
StageBEnds == pc = "B_got" /\ pc' # "B_call"
\* the answer taken by the step came back and profiles were extracted from
\* it without an exception
AnswerUsable ==
    agent_result.kind = "return" /\ extract_profiles(agent_result.final_output).ok
CountAfter == Len(deduplicate_by_url(PoolAfter(all_profiles, agent_result)))

\* C16 as claimed: Stage A searches for no further title once the unique
\* count exceeds 2 * desired_profile and goes on while it does not; Stage B
\* searches for no further title once the count is >= desired_profile and
\* goes on while it is below.
C16_ThresholdsAsClaimed ==
    [][ /\ (pc = "A_got" /\ CountAfter > 2 * desired_profile) => StageAEnds
        /\ (pc = "A_got" /\ CountAfter <= 2 * desired_profile /\ idx < Len(position_titles))
           => ~StageAEnds
        /\ (pc = "B_got" /\ CountAfter >= desired_profile) => StageBEnds
        /\ (pc = "B_got" /\ CountAfter < desired_profile /\ idx < Len(position_titles))
           => ~StageBEnds
      ]_vars

\* C16 amended: the thresholds are tested only after a search call whose
\* answer came back and was extracted without an exception; after an
\* exception the stage goes on to the next title whatever the count is.
C16_ThresholdsAfterUsableAnswer ==
    [][ /\ (pc = "A_got" /\ AnswerUsable /\ CountAfter > 2 * desired_profile) => StageAEnds
        /\ (pc = "A_got" /\ idx < Len(position_titles)
              /\ (~AnswerUsable \/ CountAfter <= 2 * desired_profile))
           => (~StageAEnds /\ idx' = idx + 1)
        /\ (pc = "B_got" /\ AnswerUsable /\ CountAfter >= desired_profile) => StageBEnds
        /\ (pc = "B_got" /\ idx < Len(position_titles)
              /\ (~AnswerUsable \/ CountAfter < desired_profile))
           => (~StageBEnds /\ idx' = idx + 1)
      ]_vars

\* a Stage A call has raised while the count is already above
\* 2 * desired_profile, and titles are left
C16_Witness ==
    /\ pc = "A_got"
    /\ ~AnswerUsable
    /\ CountAfter > 2 * desired_profile
    /\ idx < Len(position_titles)

\* C17: deduplicate_by_url applied to what deduplicate_by_url returned
\* gives the same sequence again.
C17_DedupIdempotent ==
    pc = "dedup_done" => deduplicate_by_url(result.v) = result.v

\* a sequence with repeated and empty urls has been deduplicated to two
\* records
C17_Witness ==
    /\ pc = "dedup_done"
    /\ Len(all_profiles) = MaxSeq
    /\ Len(result.v) = 2
    /\ \E i \in 1..Len(all_profiles) : ~Truthy(UrlOf(all_profiles[i]))

\* positions of S that carry a non-empty url for the first time
FirstOccurrences(S) ==
    {i \in 1..Len(S) : Truthy(UrlOf(S[i])) /\ \A j \in 1..(i - 1) : UrlOf(S[j]) # UrlOf(S[i])}
\* the k-th smallest of a set of positions
Kth(I, k) == CHOOSE i \in I : Cardinality({j \in I : j <= i}) = k

\* C18: deduplicate_by_url(S) is the subsequence of S at the positions
\* where a non-empty url occurs for the first time, in the order of S.
C18_DedupFirstOccurrences ==
    pc = "dedup_done"
    => LET I == FirstOccurrences(all_profiles)
       IN /\ Len(result.v) = Cardinality(I)
          /\ \A k \in 1..Cardinality(I) : result.v[k] = all_profiles[Kth(I, k)]
          /\ DistinctUrls(result.v)
          /\ UrlsOf(result.v) = {u \in UrlsOf(all_profiles) : Truthy(u)}

\* u1 came twice with different fields, the second time after u2, and the
\* first record of u1 and the record of u2 were kept in this order
C18_Witness ==
    /\ pc = "dedup_done"
    /\ all_profiles = <<[url |-> "u1", title |-> "a"], [url |-> "u2", title |-> "a"],
                        [url |-> "u1", title |-> "b"]>>
    /\ result.v = <<[url |-> "u1", title |-> "a"], [url |-> "u2", title |-> "a"]>>

\* C19 as claimed: a search answer whose JSON text is an array of profile
\* mappings gives one base record per mapping, which joins the pool.
C19_BareListExtracted ==
    (pc \in {"A_got", "B_got"} /\ agent_result = Returns(Str(JB_u2)))
    => /\ extract_profiles(agent_result.final_output)
              = Parsed(<<[title |-> "", url |-> "u2", content |-> "", score |-> 0]>>)
       /\ PoolAfter(all_profiles, agent_result)
              = all_profiles \o <<[title |-> "", url |-> "u2", content |-> "", score |-> 0]>>

\* the step ends the searches of the attempt: Stage A ends and Stage B does
\* not follow, or Stage B ends
SearchesEnd == (StageAEnds /\ pc' # "B_call") \/ StageBEnds

\* C20: when the searches of an attempt end, the filter is called exactly
\* if the deduplicated pool is not empty, and is asked for desired_profile
\* minus the number of accumulated profiles; with an empty pool the
\* accumulator stays as it is; after the filter call of an attempt no other
\* follows before the next attempt.
C20_FilterPerAttempt ==
    [][ /\ SearchesEnd => (pc' = "F_call" <=> CountAfter > 0)
        /\ (SearchesEnd /\ CountAfter = 0)
           => UNCHANGED <<accumulated_profiles, accumulated_urls>>
        /\ (pc # "F_call" /\ pc' = "F_call")
           => /\ SearchesEnd
              /\ attempt' = attempt
              /\ deduplicate_by_url(all_profiles') # <<>>
              /\ profiles_needed' = desired_profile - Len(accumulated_profiles)
              /\ accumulated_profiles' = accumulated_profiles
        /\ (pc \in {"F_call", "F_got"} /\ pc' \notin {"F_call", "F_got"})
           => (pc' \in {"returned", "raised"} \/ attempt' = attempt + 1)
        /\ pc = "F_got" => pc' # "F_call"
      ]_vars

\* in a later attempt, with one of two profiles accumulated, the filter is
\* asked for one
C20_Witness ==
    /\ pc = "F_call"
    /\ attempt >= 1
    /\ desired_profile = 2
    /\ Len(accumulated_profiles) = 1
    /\ profiles_needed = 1

\* a is the beginning of b
IsPrefix(a, b) == Len(a) <= Len(b) /\ SubSeq(b, 1, Len(a)) = a

\* C21: every attempt starts with an empty pool; within an attempt the pool
\* only takes the records extracted from the answers of that attempt's
\* search calls; the accumulator is carried into the next attempt.
C21_PoolResetPerAttempt ==
    [][ /\ (pc' = "A_call" /\ idx' = 1) => all_profiles' = <<>>
        /\ (pc' = "A_call" /\ attempt' # attempt)
           => /\ attempt' = attempt + 1
              /\ idx' = 1
              /\ IsPrefix(accumulated_profiles, accumulated_profiles')
              /\ accumulated_urls \subseteq accumulated_urls'
        /\ (pc \in {"A_got", "B_got"} /\ attempt' = attempt /\ pc' # "returned")
           => all_profiles' =
                  all_profiles \o (IF AnswerUsable
                                   THEN extract_profiles(agent_result.final_output).v
                                   ELSE <<>>)
        /\ (pc \notin {"A_got", "B_got"} /\ attempt' = attempt /\ pc # "entry")
           => all_profiles' = all_profiles
      ]_vars

\* a later attempt starts: the pool is empty again, and what the attempt
\* before accumulated is still there
C21_Witness ==
    /\ pc = "A_call"
    /\ attempt >= 1
    /\ idx = 1
    /\ all_profiles = <<>>
    /\ accumulated_profiles # <<>>

\* C22: the accumulated profiles only grow at the end: what is there stays
\* as it is and where it is; what improved_search returns is a beginning of
\* the accumulated profiles, and its urls are in accumulated_urls.
C22_AccumulatorAppendOnly ==
    [][ /\ pc # "entry" => IsPrefix(accumulated_profiles, accumulated_profiles')
        /\ pc' = "returned"
           => /\ IsPrefix(result'.v, accumulated_profiles')
              /\ UrlsOf(result'.v) \subseteq accumulated_urls'
      ]_vars

\* the record of u1 was accumulated first, a later attempt added u2 behind
\* it, and both were returned
C22_Witness ==
    /\ pc = "returned"
    /\ attempt >= 1
    /\ accumulated_profiles = <<[url |-> "u1", title |-> "t"], [url |-> "u2"]>>
    /\ result.v = accumulated_profiles

\* a search or filter call is awaited
CallStates == {"A_call", "B_call", "F_call"}

\* C23: a call is issued only when no call is awaited; an awaited call is
\* left only by its answer or its exception; the filter call is issued only
\* by the step that takes the answer of the attempt's last search call.
C23_SequentialCalls ==
    [][ /\ pc' \in CallStates => pc \in {"entry", "A_got", "B_got", "F_got"}
        /\ pc \in {"A_call", "B_call"}
           => (pc' = (IF pc = "A_call" THEN "A_got" ELSE "B_got") /\ idx' = idx)
        /\ pc = "F_call" => pc' \in {"F_got", "raised"}
        /\ pc' = "F_call" => SearchesEnd
      ]_vars

\* the answer for the first title is in, and the call for the second title
\* is awaited
C23_Witness ==
    /\ pc = "A_call"
    /\ idx = 2
    /\ all_profiles # <<>>


\* the frame of the task of request r: the running one or one of the others
FrameOf(r) == IF r = request_id /\ task_pc # "none" THEN TaskFrame ELSE other_tasks[r]
\* the requests that have a task
Tasks == DOMAIN other_tasks \cup (IF task_pc # "none" THEN {request_id} ELSE {})
\* the record of an ended task is the one its own workflow result gives
OwnOutcome(job, frame) ==
    IF frame.main_pc = "returned"
    THEN /\ job.status = "completed"
         /\ job.profiles = (IF frame.main_result = NoneValue THEN List(<<>>)
                            ELSE frame.main_result)
         /\ job.error = PyNone
    ELSE /\ job.status = "error"
         /\ job.profiles = NoneValue
         /\ job.error \in AgentErrors

\* C24: with several jobs in flight, a step of the task of request r changes
\* no record of job_status but the one of r and adds or removes none, and
\* the record of every ended task shows the result of that task's own
\* workflow: completed with the profiles its main returned, or error with
\* the error its main raised.
C24_JobIsolation ==
    [][ /\ task_step =>
            /\ DOMAIN job_status' = DOMAIN job_status
            /\ \A r \in DOMAIN job_status \ {request_id} : job_status'[r] = job_status[r]
        /\ \A r \in Tasks' \cap DOMAIN job_status' :
            FrameOf(r)'.task_pc = "done" => OwnOutcome(job_status'[r], FrameOf(r)')
      ]_vars

\* two jobs: the second one was submitted and ran to its end with two
\* profiles while the task of the first one awaits its workflow
C24_Witness ==
    /\ request_id = "r2" /\ task_pc = "done"
    /\ "r1" \in DOMAIN other_tasks /\ other_tasks["r1"].task_pc = "in_main"
    /\ DOMAIN job_status = {"r1", "r2"}
    /\ job_status["r1"].status = "processing"
    /\ job_status["r1"].profiles = NoneValue
    /\ job_status["r2"].status = "completed"
    /\ Len(Val(job_status["r2"].profiles)) = 2


\* a record as a reader may find it: processing has neither profiles nor a
\* completion time, completed and error have a completion time
Coherent(status, profiles, completed_at) ==
    /\ status = "processing" => profiles = NoneValue /\ completed_at = NoneValue
    /\ status \in {"completed", "error"} => completed_at # NoneValue

\* C25: in every state a status poll can find, and in every answer a poll has
\* given, a record with status processing has profiles None and completed_at
\* None, and a record with status completed or error has a completed_at.
C25_FieldsChangeTogether ==
    /\ \A r \in DOMAIN job_status :
           Coherent(job_status[r].status, job_status[r].profiles, job_status[r].completed_at)
    /\ (response.op = "get_search_status" /\ response.code = 200) =>
           /\ response.status = "processing" =>
                  response.profiles = <<>> /\ response.completed_at = NoneValue
           /\ response.status \in {"completed", "error"} =>
                  response.completed_at # NoneValue

\* a poll answered between the task's start and its end: the task awaits the
\* workflow, and the answer is that of a job in progress
C25_Witness ==
    /\ task_pc = "in_main"
    /\ main_pc = "root_call"
    /\ response.op = "get_search_status" /\ response.code = 200
    /\ response.status = "processing"
    /\ response.message = <<"Searching for prospects...">>
    /\ response.completed_at = NoneValue


\* C27: a record enters job_status with status processing; its status is
\* always processing, completed or error; the status changes only from
\* processing to completed or to error; and a record that is completed or
\* error keeps its status, profiles and completed_at for as long as it is
\* in job_status.
C27_StatusLifecycle ==
    [][ \A r \in DOMAIN job_status' :
          /\ job_status'[r].status \in {"processing", "completed", "error"}
          /\ r \notin DOMAIN job_status => job_status'[r].status = "processing"
          /\ r \in DOMAIN job_status =>
                /\ job_status'[r].status # job_status[r].status =>
                       /\ job_status[r].status = "processing"
                       /\ job_status'[r].status \in {"completed", "error"}
                /\ job_status[r].status \in {"completed", "error"} =>
                       /\ job_status'[r].status = job_status[r].status
                       /\ job_status'[r].profiles = job_status[r].profiles
                       /\ job_status'[r].completed_at = job_status[r].completed_at
      ]_vars

\* the first job ended in error, and after that a second job was submitted
\* and completed with one profile: both end states, the first one kept
\* through all the steps of the second task
C27_Witness ==
    /\ DOMAIN job_status = {"r1", "r2"}
    /\ "r1" \in DOMAIN other_tasks /\ other_tasks["r1"].task_pc = "done"
    /\ job_status["r1"].status = "error"
    /\ job_status["r1"].completed_at = IsoFormat(1)
    /\ request_id = "r2" /\ task_pc = "done"
    /\ job_status["r2"].status = "completed"
    /\ Len(Val(job_status["r2"].profiles)) = 1


\* the record of the task's request has been deleted
Deleted == task_pc # "none" /\ request_id \notin DOMAIN job_status

\* C28: once the record of a request whose task exists has been deleted, no
\* step puts a record for that request into job_status again, every status
\* poll for it is answered with 404, and a workflow that is awaited stays
\* awaited until it returns: the deletion does not end it.
C28_DeletionIsFinal ==
    [][ Deleted =>
          /\ request_id' = request_id
          /\ request_id \notin DOMAIN job_status'
          /\ get_search_status(request_id) => response'.code = 404
          /\ (task_pc = "in_main" /\ main_pc = "root_call") =>
                 /\ task_pc' = "in_main"
                 /\ main_pc' \in {"root_call", "returned"}
      ]_vars

\* the record was deleted while the task awaited the workflow; the workflow
\* has returned two profiles since, and a poll is answered with 404
C28_Witness ==
    /\ job_status = <<>>
    /\ request_id = "r1"
    /\ task_pc = "in_main"
    /\ main_pc = "returned"
    /\ main_result = List(<<[url |-> "u1", title |-> "g"], [url |-> "u2"]>>)
    /\ response = [op |-> "get_search_status", code |-> 404]


\* C29: every record improved_search returns has a url of a candidate pool
\* that was handed to the filter agent in some attempt of the invocation.
C29_Provenance == pc = "returned" => UrlsOf(result.v) \subseteq pool_urls


\* C30: called with desired_profile <= 0, improved_search returns the empty
\* sequence, whatever the search and filter agents answer.
C30_NonPositiveReturnsEmpty ==
    (pc = "returned" /\ desired_profile <= 0) => result.v = <<>>


\* the calls an invocation may issue at most
MaxAttempts == max_retries + 1
MaxSearchCalls ==
    IF position_titles = <<>> THEN 0 ELSE MaxAttempts * (2 * Len(position_titles) - 1)
\* how far an invocation has come: two for every call issued, one more when
\* the answer of the last call has been taken, two more when it has ended
Progress ==
    2 * (search_calls + filter_calls)
    + (CASE pc \in {"A_got", "B_got", "F_got"} -> 1
         [] Ended -> 2
         [] OTHER -> 0)

\* a step is possible in every state that is not an end: the call that is
\* awaited can return or raise, and the code between two calls can run
\* (StageA_resume and StageB_resume have no condition but their pc)
CanGoOn ==
    CASE pc = "entry" -> ENABLED improved_search_enter
      [] pc \in {"A_call", "B_call"} -> ENABLED (\E r \in SearchResponses : SearchCallEnds(r))
      [] pc = "F_call" -> ENABLED (\E r \in FilterResponses : FilterCallEnds(r))
      [] pc = "F_got" -> ENABLED Merge
      [] pc \in {"A_got", "B_got"} -> TRUE
      [] OTHER -> Ended

\* C26: improved_search starts at most max_retries + 1 attempts, issues at
\* most max_retries + 1 filter calls and, with a non-empty title list, at
\* most (max_retries + 1) * (2 * |titles| - 1) search calls; and it ends:
\* every step brings it strictly further towards a bound that the numbers
\* of calls fix, and as long as it has not returned or raised it can take
\* another step, the awaited call returning or raising.
C26_BoundedWork ==
    /\ [](/\ attempt <= MaxAttempts
          /\ ~Ended => attempt < MaxAttempts
          /\ filter_calls <= MaxAttempts
          /\ position_titles # <<>> => search_calls <= MaxSearchCalls
          /\ Progress <= 2 * (MaxSearchCalls + MaxAttempts) + 2
          /\ CanGoOn)
    /\ [][Progress' > Progress]_vars

\* the invocation ended by exhaustion after every attempt issued every search
\* call it can and one filter call: the bounds are reached
C26_Witness ==
    /\ pc = "returned"
    /\ Len(position_titles) = 2
    /\ max_retries = 1
    /\ attempt = MaxAttempts
    /\ filter_calls = MaxAttempts
    /\ search_calls = MaxSearchCalls

=============================================================================
